---- MODULE Spec2Model ----
(***************************************************************************)
(* proxy-config-updater: serve.py.                                         *)
(*                                                                         *)
(* A socketserver.TCPServer bound to ("", PORT) whose request handler is   *)
(* a http.server.BaseHTTPRequestHandler subclass that defines do_GET and   *)
(* an empty log_message.  The model covers the processes started from the  *)
(* script (bind, banner, serve_forever, death by signal), the kernel       *)
(* accept queue of the port, and the handling of one connection at a time: *)
(* the request line and headers are parsed as the base class parses them,  *)
(* the method is dispatched by name (do_<COMMAND>), and the response is    *)
(* assembled by send_response / send_header / end_headers / wfile.write.   *)
(***************************************************************************)
EXTENDS Integers, Sequences, FiniteSets, TLC

(***************************************************************************)
(* Bounds of the model.                                                    *)
(***************************************************************************)
\* Number of client connections opened over a run.
MaxConns == 2
\* Number of times the script is launched (processes 1..MaxProcs).
MaxProcs == 2

(***************************************************************************)
(* Program constants.                                                      *)
(***************************************************************************)
PORT == 8888

\* The literal of line 7, character by character.
BASE64_CONTENT ==
 << "c", "G", "9", "y", "d", "D", "o", "g", "O", "D", "g", "4", "O", "A",
    "p", "w", "c", "m", "9", "4", "a", "W", "V", "z", "O", "g", "o", "g",
    "I", "C", "0", "g", "b", "m", "F", "t", "Z", "T", "o", "g", "d", "G",
    "V", "z", "d", "A", "o", "g", "I", "C", "A", "g", "d", "H", "l", "w",
    "Z", "T", "o", "g", "c", "2", "9", "j", "a", "3", "M", "1", "C", "i",
    "A", "g", "I", "C", "B", "z", "Z", "X", "J", "2", "Z", "X", "I", "6",
    "I", "G", "V", "4", "Y", "W", "1", "w", "b", "G", "U", "u", "Y", "2",
    "9", "t", "C", "i", "A", "g", "I", "C", "B", "w", "b", "3", "J", "0",
    "O", "i", "A", "x", "M", "D", "g", "w" >>

\* Exit status of the interpreter after an uncaught exception (the OSError
\* of a failed bind leaves the with statement of line 21 uncaught).
ExitUncaught == 1
\* Exit status seen by the parent when the interpreter dies of SIGINT after
\* the uncaught KeyboardInterrupt raised inside serve_forever (128 + 2).
ExitSigInt == 130

(***************************************************************************)
(* str.encode(): UTF-8 bytes of a string.  Every character used here is    *)
(* ASCII, so each one becomes the single byte of its code point.           *)
(***************************************************************************)
Upper == << "A", "B", "C", "D", "E", "F", "G", "H", "I", "J", "K", "L", "M",
            "N", "O", "P", "Q", "R", "S", "T", "U", "V", "W", "X", "Y", "Z" >>
Lower == << "a", "b", "c", "d", "e", "f", "g", "h", "i", "j", "k", "l", "m",
            "n", "o", "p", "q", "r", "s", "t", "u", "v", "w", "x", "y", "z" >>
Digit == << "0", "1", "2", "3", "4", "5", "6", "7", "8", "9" >>

IndexOf(seq, c) == CHOOSE i \in DOMAIN seq : seq[i] = c

Occurs(seq, c) == \E i \in DOMAIN seq : seq[i] = c

ord(c) ==
    IF Occurs(Upper, c) THEN 64 + IndexOf(Upper, c)
    ELSE IF Occurs(Lower, c) THEN 96 + IndexOf(Lower, c)
    ELSE IF Occurs(Digit, c) THEN 47 + IndexOf(Digit, c)
    ELSE IF c = "+" THEN 43
    ELSE IF c = "/" THEN 47
    ELSE IF c = "=" THEN 61
    ELSE 63

encode(s) == [i \in DOMAIN s |-> ord(s[i])]

\* BASE64_CONTENT.encode(), the argument of the write of line 14.
BASE64_CONTENT_encode == encode(BASE64_CONTENT)

(***************************************************************************)
(* Decimal formatting of a non-negative integer ({PORT} in the f-string,   *)
(* %d in the error page), as the sequence of its digit characters.         *)
(***************************************************************************)
RECURSIVE str(_)
str(n) == IF n < 10 THEN << Digit[n + 1] >>
          ELSE Append(str(n \div 10), Digit[(n % 10) + 1])

\* f"Serving on port {PORT}": one line of text.
Banner == << "Serving on port " >> \o str(PORT)

(***************************************************************************)
(* Requests.  A request is the request line split into words, whether the  *)
(* raw line exceeds the 65536 bytes readline accepts, and how the header   *)
(* block parses.                                                           *)
(***************************************************************************)
Methods == {"GET", "POST", "HEAD"}
Paths == {"/", "/anything/else"}

Req(line) == [line |-> line, overlong |-> FALSE, hdrs |-> "ok"]

Requests ==
    { Req(<< m, p, "HTTP/1.1" >>) : m \in Methods, p \in Paths }
    \cup { Req(<< "GET", "/", v >>) : v \in {"HTTP/1.0", "HTTP/2.0", "FOO"} }
    \cup { Req(<< m, "/" >>) : m \in {"GET", "POST"} }
    \cup { Req(<< >>), Req(<< "garbage" >>),
           Req(<< "GET", "/", "x", "HTTP/1.1" >>) }
    \cup { [line |-> << "GET", "/", "HTTP/1.1" >>, overlong |-> TRUE,
            hdrs |-> "ok"] }
    \cup { [line |-> << "GET", "/", "HTTP/1.1" >>, overlong |-> FALSE,
            hdrs |-> e] : e \in {"LineTooLong", "TooManyHeaders"} }

(***************************************************************************)
(* The request handler.  A handler value h carries the fields the base     *)
(* class keeps while one request is handled:                               *)
(*   request_version, command, path   set by parse_request                 *)
(*   status_buffer, headers_buffer   the _headers_buffer (status line and  *)
(*                              header lines not yet written)              *)
(*   wire      what has been written to wfile: the status line (<<>> or    *)
(*             <<code>>), the header lines, the body bytes                 *)
(*   err       lines the handler printed to sys.stderr                     *)
(***************************************************************************)
NoResponse == [status |-> << >>, headers |-> << >>, body |-> << >>]

NewHandler ==
    [request_version |-> "HTTP/0.9", command |-> "", path |-> "",
     status_buffer |-> << >>, headers_buffer |-> << >>,
     wire |-> NoResponse, err |-> << >>]

\* BaseHTTPRequestHandler.log_message as inherited: one line to sys.stderr.
log_message_inherited(h, line) == [h EXCEPT !.err = Append(@, line)]

\* Handler.log_message: the override does nothing.
log_message(h, line) == h

\* log_request and log_error of the base class both end in log_message.
log_request(h, code) == log_message(h, << "request " >> \o str(code))

log_error(h, code) == log_message(h, << "code " >> \o str(code))

send_response_only(h, code) ==
    IF h.request_version # "HTTP/0.9"
    THEN [h EXCEPT !.status_buffer = << code >>]
    ELSE h

send_header(h, keyword, value) ==
    IF h.request_version # "HTTP/0.9"
    THEN [h EXCEPT !.headers_buffer = Append(@, << keyword, value >>)]
    ELSE h

send_response(h, code) ==
    send_header(
        send_header(send_response_only(log_request(h, code), code),
                    "Server", "BaseHTTP"),
        "Date", "now")

\* end_headers: the blank line, then flush_headers writes the buffer.
end_headers(h) ==
    IF h.request_version # "HTTP/0.9"
    THEN [h EXCEPT !.wire.status = h.status_buffer,
                   !.wire.headers = @ \o h.headers_buffer,
                   !.status_buffer = << >>,
                   !.headers_buffer = << >>]
    ELSE h

wfile_write(h, data) == [h EXCEPT !.wire.body = @ \o data]

\* The error page of the base class, abbreviated to its "Error code: %d".
error_message(code) == encode(<< "E" >> \o str(code))

\* BaseHTTPRequestHandler.send_error for the codes used here (all >= 200
\* and none of 204, 205, 304, so the page is always built).
send_error(h, code) ==
    LET body == error_message(code)
        h1 == send_response(log_error(h, code), code)
        h2 == send_header(h1, "Connection", "close")
        h3 == send_header(h2, "Content-Type", "text/html;charset=utf-8")
        h4 == send_header(h3, "Content-Length", "len")
        h5 == end_headers(h4)
    IN  IF h.command # "HEAD" THEN wfile_write(h5, body) ELSE h5

\* Handler.do_GET, lines 10-14.
do_GET_root_only(h) ==
    IF h.path = "/"
    THEN wfile_write(
             end_headers(send_header(send_response(h, 200),
                                     "Content-Type", "text/plain")),
             BASE64_CONTENT_encode)
    ELSE send_error(h, 404)

do_GET_no_content_type(h) ==
    wfile_write(end_headers(send_response(h, 200)), BASE64_CONTENT_encode)

do_GET(h) ==
    wfile_write(
        end_headers(send_header(send_response(h, 200),
                                "Content-Type", "text/plain")),
        BASE64_CONTENT_encode)

\* The do_<COMMAND> methods class Handler has (hasattr(self, mname)).
HandlerMethods_any == Methods

HandlerMethods == {"GET"}

\* int(major), int(minor) of "HTTP/<major>.<minor>"; <<>> is the ValueError.
VersionNumber(version) ==
    CASE version = "HTTP/1.0" -> << 1, 0 >>
      [] version = "HTTP/1.1" -> << 1, 1 >>
      [] version = "HTTP/2.0" -> << 2, 0 >>
      [] OTHER -> << >>

\* BaseHTTPRequestHandler.parse_request: [ok, h], h holding any error
\* response already sent.
parse_request(h0, req) ==
    LET words == req.line
        n == Len(words)
        h == [h0 EXCEPT !.command = "", !.request_version = "HTTP/0.9"]
        version == words[n]
        vn == VersionNumber(version)
        hv == IF n >= 3 THEN [h EXCEPT !.request_version = version] ELSE h
        hc == [hv EXCEPT !.command = words[1], !.path = words[2]]
    IN  IF n = 0 THEN [ok |-> FALSE, h |-> h]
        ELSE IF n >= 3 /\ vn = << >>
            THEN [ok |-> FALSE, h |-> send_error(h, 400)]
        ELSE IF n >= 3 /\ vn[1] >= 2
            THEN [ok |-> FALSE, h |-> send_error(h, 505)]
        ELSE IF ~(2 <= n /\ n <= 3)
            THEN [ok |-> FALSE, h |-> send_error(hv, 400)]
        ELSE IF n = 2 /\ words[1] # "GET"
            THEN [ok |-> FALSE, h |-> send_error(hv, 400)]
        ELSE IF req.hdrs # "ok"
            THEN [ok |-> FALSE, h |-> send_error(hc, 431)]
        ELSE [ok |-> TRUE, h |-> hc]

\* BaseHTTPRequestHandler.handle_one_request on a request that was read.
handle_one_request(req) ==
    IF req.overlong
    THEN send_error([NewHandler EXCEPT !.request_version = ""], 414)
    ELSE LET r == parse_request(NewHandler, req)
         IN  IF ~r.ok THEN r.h
             ELSE IF r.h.command \notin HandlerMethods
                 THEN send_error(r.h, 501)
             ELSE do_GET(r.h)

(***************************************************************************)
(* Processes, the port and its connections.                                *)
(***************************************************************************)
Procs == 1 .. MaxProcs

VARIABLES
    state,      \* state[p]: "NotStarted", "Listening" or "Terminated"
    exit,       \* exit[p]: <<>> while p has not exited, else <<status>>
    stderr,     \* stderr[p]: the lines p wrote to sys.stderr
    listeners,  \* the processes whose socket is bound to PORT and listening
    backlog,    \* connections completed by the kernel, not yet accepted
    inService,  \* connections accepted and not yet shut down
    accepted,   \* history: connections in the order they were accepted
    log,        \* history: what became of each connection, in order
    last,       \* history: the latest request answered and what was written
    nextId      \* the next connection a client will open

vars == << state, exit, stderr, listeners, backlog, inService, accepted, log,
           last, nextId >>

Init ==
    /\ state = [p \in Procs |-> "NotStarted"]
    /\ exit = [p \in Procs |-> << >>]
    /\ stderr = [p \in Procs |-> << >>]
    /\ listeners = {}
    /\ backlog = << >>
    /\ inService = {}
    /\ accepted = << >>
    /\ log = << >>
    /\ last = << >>
    /\ nextId = 1

\* What the interpreter prints for an exception nobody caught.
Traceback(exc) == << << "Traceback (most recent call last):" >>, << exc >> >>

\* BaseServer.handle_error: the four prints around the traceback.
handle_error(exc) ==
    << << "----------------------------------------" >>,
       << "Exception occurred during processing of request from" >> >>
    \o Traceback(exc)
    \o << << "----------------------------------------" >> >>

Launched == Cardinality({p \in Procs : state[p] # "NotStarted"})

Entry(c, p, outcome) ==
    [id |-> c, proc |-> p, outcome |-> outcome, launched |-> Launched]

\* Lines 21-22 when server_bind raises OSError: server_close, and the
\* exception leaves the script.
BindFailure_ignored(p) ==
    /\ state' = [state EXCEPT ![p] = "Listening"]
    /\ stderr' = [stderr EXCEPT ![p] = << Banner >>]
    /\ UNCHANGED << exit, listeners >>

BindFailure(p) ==
    /\ state' = [state EXCEPT ![p] = "Terminated"]
    /\ exit' = [exit EXCEPT ![p] = << ExitUncaught >>]
    /\ stderr' = [stderr EXCEPT ![p] = @ \o Traceback("OSError")]
    /\ UNCHANGED listeners

\* Lines 20-23 up to the entry into serve_forever: TCPServer(("", PORT),
\* Handler) binds and listens, then the banner is printed.  The bind
\* fails whenever the port has a listener (allow_reuse_address is False);
\* on a free port it may still fail (connections of an earlier listener
\* lingering in TIME_WAIT, no address to bind).  Launches are numbered in
\* the order they happen.
Start(p) ==
    /\ state[p] = "NotStarted"
    /\ \A q \in Procs : q < p => state[q] # "NotStarted"
    /\ \/ /\ listeners = {}
          /\ state' = [state EXCEPT ![p] = "Listening"]
          /\ listeners' = {p}
          /\ stderr' = [stderr EXCEPT ![p] = Append(@, Banner)]
          /\ UNCHANGED exit
       \/ BindFailure(p)
    /\ UNCHANGED << backlog, inService, accepted, log, last, nextId >>

\* A client connects to PORT while some process listens on it.
Connect ==
    /\ nextId <= MaxConns
    /\ listeners # {}
    /\ backlog' = Append(backlog, nextId)
    /\ nextId' = nextId + 1
    /\ UNCHANGED << state, exit, stderr, listeners, inService, accepted, log,
                    last >>

\* serve_forever calls _handle_request_noblock in its own thread and
\* process_request runs the handler to completion before it returns.
CanAccept_threading == TRUE

CanAccept == inService = {}

\* serve_forever: get_request accepts the next connection and the handler
\* is constructed; it blocks in rfile.readline (timeout is None).
Accept(p) ==
    /\ p \in listeners
    /\ state[p] = "Listening"
    /\ CanAccept
    /\ backlog # << >>
    /\ inService' = inService \cup {Head(backlog)}
    /\ accepted' = Append(accepted, Head(backlog))
    /\ backlog' = Tail(backlog)
    /\ UNCHANGED << state, exit, stderr, listeners, log, last, nextId >>

\* The process serving connection c: the listener that accepted it.
Serving(p, c) == p \in listeners /\ state[p] = "Listening" /\ c \in inService

\* A failure path that also closes the listening socket.
ConnectionFailure_closes(p, c, outcome, printed, exc) ==
    /\ stderr' = [stderr EXCEPT ![p] = @ \o printed \o handle_error(exc)]
    /\ listeners' = listeners \ {p}
    /\ inService' = {}
    /\ backlog' = << >>
    /\ log' = Append(log, Entry(c, p, outcome))
    /\ UNCHANGED << state, exit, accepted, last, nextId >>

\* _handle_request_noblock, "except Exception": handle_error prints the
\* traceback, shutdown_request drops the connection, the loop goes on.
ConnectionFailure_propagates(p, c, outcome, printed, exc) ==
    /\ state' = [state EXCEPT ![p] = "Terminated"]
    /\ exit' = [exit EXCEPT ![p] = << ExitUncaught >>]
    /\ stderr' = [stderr EXCEPT ![p] = @ \o printed \o Traceback(exc)]
    /\ listeners' = listeners \ {p}
    /\ inService' = {}
    /\ backlog' = << >>
    /\ log' = Append(log, Entry(c, p, outcome))
    /\ UNCHANGED << accepted, last, nextId >>

ConnectionFailure(p, c, outcome, printed, exc) ==
    /\ stderr' = [stderr EXCEPT ![p] = @ \o printed \o handle_error(exc)]
    /\ inService' = inService \ {c}
    /\ log' = Append(log, Entry(c, p, outcome))
    /\ UNCHANGED << state, exit, listeners, backlog, accepted, last, nextId >>

\* The client sends req and reads the answer: handle_one_request runs to
\* its end and the connection is shut down (close_connection stays True
\* under protocol_version HTTP/1.0).
Serve(p, c, req) ==
    /\ Serving(p, c)
    /\ LET h == handle_one_request(req)
       IN  /\ stderr' = [stderr EXCEPT ![p] = @ \o h.err]
           /\ last' = << [id |-> c, req |-> req, resp |-> h.wire] >>
    /\ log' = Append(log, Entry(c, p, "handled"))
    /\ inService' = inService \ {c}
    /\ UNCHANGED << state, exit, listeners, backlog, accepted, nextId >>

\* The client sends req and resets the connection before the answer is
\* written: a wfile.write of the handler raises.
WriteFails(p, c, req) ==
    /\ Serving(p, c)
    /\ LET h == handle_one_request(req)
       IN  /\ h.wire # NoResponse
           /\ ConnectionFailure(p, c, "write failed", h.err,
                                "BrokenPipeError")

\* The client resets the connection before its request is complete:
\* rfile.readline raises.
ReadFails(p, c) ==
    /\ Serving(p, c)
    /\ ConnectionFailure(p, c, "read failed", << >>, "ConnectionResetError")

\* The client closes without sending a byte: raw_requestline is empty and
\* handle_one_request returns.
ClientCloses(p, c) ==
    /\ Serving(p, c)
    /\ inService' = inService \ {c}
    /\ log' = Append(log, Entry(c, p, "closed"))
    /\ UNCHANGED << state, exit, stderr, listeners, backlog, accepted, last,
                    nextId >>

\* Exit status of a process interrupted while in serve_forever:
\* KeyboardInterrupt is raised, nothing catches it, the with statement
\* closes the socket and the interpreter dies of the signal.
SignalExit_clean(sig) == 0

SignalExit(sig) == ExitSigInt

Signals == {"SIGINT"}

Signal(p, sig) ==
    /\ state[p] = "Listening"
    /\ state' = [state EXCEPT ![p] = "Terminated"]
    /\ exit' = [exit EXCEPT ![p] = << SignalExit(sig) >>]
    /\ stderr' = [stderr EXCEPT ![p] = @ \o Traceback("KeyboardInterrupt")]
    /\ listeners' = listeners \ {p}
    /\ inService' = {}
    /\ backlog' = << >>
    /\ UNCHANGED << accepted, log, last, nextId >>

Next ==
    \/ \E p \in Procs : Start(p)
    \/ Connect
    \/ \E p \in Procs : Accept(p)
    \/ \E p \in Procs, c \in inService, req \in Requests : Serve(p, c, req)
    \/ \E p \in Procs, c \in inService, req \in Requests :
           WriteFails(p, c, req)
    \/ \E p \in Procs, c \in inService : ReadFails(p, c)
    \/ \E p \in Procs, c \in inService : ClientCloses(p, c)
    \/ \E p \in Procs, sig \in Signals : Signal(p, sig)

Spec == Init /\ [][Next]_vars

(***************************************************************************)
(* Vocabulary of the properties.                                           *)
(***************************************************************************)
\* A request the base class parses without error under HTTP/1.x: method,
\* path and an HTTP/1.0 or HTTP/1.1 version, within the size limits.
WellFormed(req) ==
    /\ ~req.overlong
    /\ req.hdrs = "ok"
    /\ Len(req.line) = 3
    /\ req.line[3] \in {"HTTP/1.0", "HTTP/1.1"}

Method(req) == req.line[1]

\* The HTTP/0.9 simple request "GET <path>".
SimpleGet(req) ==
    /\ ~req.overlong
    /\ req.hdrs = "ok"
    /\ Len(req.line) = 2
    /\ req.line[1] = "GET"

ContentTypes(resp) ==
    {i \in DOMAIN resp.headers : resp.headers[i][1] = "Content-Type"}

ContentTypeIs(resp, value) ==
    /\ Cardinality(ContentTypes(resp)) = 1
    /\ \A i \in ContentTypes(resp) : resp.headers[i][2] = value

Failed(e) == e.outcome \in {"write failed", "read failed"}

HasBanner(p) == \E i \in DOMAIN stderr[p] : stderr[p][i] = Banner

C2_MethodIndependent ==
    \A i \in DOMAIN last :
        WellFormed(last[i].req)
            => /\ last[i].resp.status = << 200 >>
               /\ last[i].resp.body = BASE64_CONTENT_encode

(***************************************************************************)
(* C2, amended.  Only GET is answered with 200 and the payload: the class  *)
(* defines do_GET alone, and a well-formed request with any other method   *)
(* is answered 501 with the error page (no body at all for HEAD).          *)
(***************************************************************************)
C2_OnlyGetServed ==
    \A i \in DOMAIN last :
        WellFormed(last[i].req)
            => IF Method(last[i].req) = "GET"
               THEN /\ last[i].resp.status = << 200 >>
                    /\ last[i].resp.body = BASE64_CONTENT_encode
               ELSE /\ last[i].resp.status = << 501 >>
                    /\ last[i].resp.body =
                          IF Method(last[i].req) = "HEAD" THEN << >>
                          ELSE error_message(501)

C2_Witness ==
    \E i \in DOMAIN last :
        /\ last[i].req = Req(<< "POST", "/", "HTTP/1.1" >>)
        /\ last[i].resp.status = << 501 >>

(***************************************************************************)
(* C3.  As claimed: every response written has exactly one Content-Type    *)
(* header, with value text/plain.                                          *)
(***************************************************************************)
C3_AlwaysTextPlain ==
    \A i \in DOMAIN last :
        last[i].resp # NoResponse => ContentTypeIs(last[i].resp, "text/plain")

(***************************************************************************)
(* C3, amended.  Every 200 response, which is the response to every        *)
(* well-formed HTTP/1.x GET, has exactly one Content-Type header, with     *)
(* value text/plain.  Every response with another status has exactly one   *)
(* Content-Type header too, with value text/html;charset=utf-8, and a      *)
(* response written without a status line has no header at all.            *)
(***************************************************************************)
C3_ContentTypeByStatus ==
    \A i \in DOMAIN last :
        LET resp == last[i].resp
        IN  /\ (WellFormed(last[i].req) /\ Method(last[i].req) = "GET")
                  => resp.status = << 200 >>
            /\ resp.status = << 200 >> => ContentTypeIs(resp, "text/plain")
            /\ (resp.status # << >> /\ resp.status # << 200 >>)
                  => ContentTypeIs(resp, "text/html;charset=utf-8")
            /\ resp.status = << >> => resp.headers = << >>

C3_Witness ==
    \E i \in DOMAIN last :
        /\ last[i].resp.status = << 200 >>
        /\ ContentTypeIs(last[i].resp, "text/plain")
        /\ Len(last[i].resp.headers) = 3

(***************************************************************************)
(* C4.  Bind collision.  A process launched while another one listens on   *)
(* the port terminates in that very step (no second bind attempt) with a   *)
(* non-zero exit status and without printing the banner, so it is never    *)
(* Listening; the listener stays Listening, and its socket, its accept     *)
(* queue, the connection it is serving and its output are untouched, so    *)
(* it answers what it would have answered.                                 *)
(***************************************************************************)
C4_BindCollision ==
    [][\A p \in Procs :
          (state[p] = "NotStarted" /\ state'[p] # "NotStarted"
             /\ listeners # {})
          => /\ state'[p] = "Terminated"
             /\ exit'[p] # << >>
             /\ \A i \in DOMAIN exit'[p] : exit'[p][i] # 0
             /\ \A i \in DOMAIN stderr'[p] : stderr'[p][i] # Banner
             /\ listeners' = listeners
             /\ \A q \in listeners :
                   state'[q] = "Listening" /\ stderr'[q] = stderr[q]
             /\ UNCHANGED << backlog, inService, accepted, log, last >>]_vars

\* The second launch has failed, and the first process has since answered
\* a GET with the payload and is still Listening.
C4_Witness ==
    \E p, q \in Procs :
        /\ q < p
        /\ state[p] = "Terminated"
        /\ exit[p] = << ExitUncaught >>
        /\ ~HasBanner(p)
        /\ state[q] = "Listening"
        /\ log # << >>
        /\ log[Len(log)].proc = q
        /\ log[Len(log)].launched >= p
        /\ log[Len(log)].outcome = "handled"
        /\ \E i \in DOMAIN last :
              /\ last[i].id = log[Len(log)].id
              /\ last[i].resp.status = << 200 >>
              /\ last[i].resp.body = BASE64_CONTENT_encode

(***************************************************************************)
(* C5.  A connection that fails (reset while the request is read, or a     *)
(* write to a client that is gone) is the only thing abandoned: in that    *)
(* step the process stays Listening with its socket and accept queue as    *)
(* they were, and a well-formed GET on any later connection is answered    *)
(* 200 with the payload.                                                   *)
(***************************************************************************)
C5_FailureIsLocal ==
    /\ [][\A e \in {log'[i] : i \in DOMAIN log' \ DOMAIN log} :
            Failed(e)
            => /\ state' = state
               /\ exit' = exit
               /\ listeners' = listeners
               /\ e.proc \in listeners
               /\ backlog' = backlog
               /\ inService' = inService \ {e.id}]_vars
    /\ [](\A j \in DOMAIN log, i \in DOMAIN last :
            (/\ \E k \in 1 .. (j - 1) : Failed(log[k])
             /\ log[j].id = last[i].id
             /\ WellFormed(last[i].req)
             /\ Method(last[i].req) = "GET")
            => /\ last[i].resp.status = << 200 >>
               /\ last[i].resp.body = BASE64_CONTENT_encode)

\* A failed connection, and after it a GET answered with the payload by
\* the same process.
C5_Witness ==
    \E k, j \in DOMAIN log, i \in DOMAIN last :
        /\ k < j
        /\ Failed(log[k])
        /\ log[k].proc = log[j].proc
        /\ log[j].id = last[i].id
        /\ log[j].outcome = "handled"
        /\ WellFormed(last[i].req)
        /\ Method(last[i].req) = "GET"
        /\ last[i].resp.status = << 200 >>
        /\ state[log[j].proc] = "Listening"

(***************************************************************************)
(* C6.  As claimed: whatever requests were handled, answered, rejected or  *)
(* failed, the standard error of a Listening process is the banner alone.  *)
(***************************************************************************)
C6_OnlyBanner ==
    \A p \in Procs : state[p] = "Listening" => stderr[p] = << Banner >>

\* What handle_error has printed for the failed connections of p, in order.
RECURSIVE FailureOutput(_, _)
FailureOutput(p, entries) ==
    IF entries = << >> THEN << >>
    ELSE LET e == Head(entries)
             block == IF e.proc = p /\ e.outcome = "write failed"
                          THEN handle_error("BrokenPipeError")
                      ELSE IF e.proc = p /\ e.outcome = "read failed"
                          THEN handle_error("ConnectionResetError")
                      ELSE << >>
         IN  block \o FailureOutput(p, Tail(entries))

(***************************************************************************)
(* C6, amended.  After a successful bind the process writes exactly one    *)
(* line, "Serving on port 8888", and no request that is answered (with     *)
(* 200 or with an error response) or dropped by a client that closes adds  *)
(* any output.  A connection that fails with an exception is not silent:   *)
(* for each one the server prints its error block (two lines, the          *)
(* traceback, one line) after what was there.                              *)
(***************************************************************************)
C6_BannerThenFailureBlocks ==
    \A p \in Procs :
        state[p] = "Listening"
            => stderr[p] = << Banner >> \o FailureOutput(p, log)

\* A Listening process that answered a GET and then rejected a request
\* with 501, its standard error still the banner alone.
C6_Witness ==
    \E p \in Procs :
        /\ state[p] = "Listening"
        /\ stderr[p] = << << "Serving on port ", "8", "8", "8", "8" >> >>
        /\ Len(log) >= 2
        /\ \A k \in DOMAIN log :
              log[k].proc = p /\ log[k].outcome = "handled"
        /\ \E i \in DOMAIN last : last[i].resp.status = << 501 >>

(***************************************************************************)
(* C7.  As claimed: a process stopped by a signal while Listening exits    *)
(* with status 0, and only a process whose bind failed exits non-zero.     *)
(***************************************************************************)
C7_SignalExitsZero ==
    \A p \in Procs :
        state[p] = "Terminated"
            => IF HasBanner(p) THEN exit[p] = << 0 >>
               ELSE exit[p] # << >> /\ exit[p] # << 0 >>

(***************************************************************************)
(* C7, amended.  No termination has exit status 0.  A process stopped by   *)
(* an interrupt while Listening dies of the KeyboardInterrupt nobody       *)
(* catches, with a non-zero status (130, death by SIGINT), and a process   *)
(* whose bind failed exits with status 1.  A process that has not          *)
(* terminated has no exit status.                                          *)
(***************************************************************************)
C7_EveryExitNonZero ==
    \A p \in Procs :
        IF state[p] = "Terminated"
        THEN /\ Len(exit[p]) = 1
             /\ exit[p][1] # 0
             /\ IF HasBanner(p)
                THEN exit[p][1] = ExitSigInt
                ELSE exit[p][1] = ExitUncaught
        ELSE exit[p] = << >>

\* A process that was Listening, answered a request and was interrupted.
C7_Witness ==
    \E p \in Procs :
        /\ state[p] = "Terminated"
        /\ HasBanner(p)
        /\ exit[p] = << 130 >>
        /\ \E k \in DOMAIN log : log[k].proc = p

(***************************************************************************)
(* C8.  A launched process is Listening or Terminated and nothing else.    *)
(* Terminated is never left.  It is entered only from a launch whose bind  *)
(* fails or from Listening by a signal, and never in a step in which a     *)
(* connection is answered, fails or is closed by its client: such a step   *)
(* leaves every process in its state.                                      *)
(***************************************************************************)
C8_TwoStates ==
    /\ [](\A p \in Procs :
             state[p] \in {"NotStarted", "Listening", "Terminated"})
    /\ [][\A p \in Procs :
            /\ state[p] = "Terminated" => state'[p] = "Terminated"
            /\ state[p] = "Listening"
                  => state'[p] \in {"Listening", "Terminated"}
            /\ (state[p] # "Terminated" /\ state'[p] = "Terminated")
                  => \/ /\ state[p] = "NotStarted"
                        /\ exit'[p] = << ExitUncaught >>
                        /\ p \notin listeners'
                        /\ log' = log
                     \/ /\ state[p] = "Listening"
                        /\ exit'[p] = << ExitSigInt >>
                        /\ log' = log
            /\ log' # log => state' = state]_vars

\* One process terminated; another still Listening after a connection
\* that failed and a malformed request it rejected.
C8_Witness ==
    \E p, q \in Procs :
        /\ state[p] = "Terminated"
        /\ state[q] = "Listening"
        /\ Len(log) >= 2
        /\ \E k \in DOMAIN log : log[k].proc = q /\ Failed(log[k])
        /\ \E k \in DOMAIN log, i \in DOMAIN last :
              /\ log[k].proc = q
              /\ log[k].id = last[i].id
              /\ last[i].req = Req(<< "garbage" >>)

Position(seq, x) == CHOOSE i \in DOMAIN seq : seq[i] = x

(***************************************************************************)
(* C9.  Serial handling.  At most one connection is in service at any      *)
(* moment, it is the one accepted last, every connection accepted before   *)
(* it has been answered, has failed or was dropped, and the connections    *)
(* are dealt with in the order in which they were accepted.                *)
(***************************************************************************)
C9_OneAtATime ==
    /\ Cardinality(inService) <= 1
    /\ \A c \in inService : c = accepted[Len(accepted)]
    /\ \A k \in DOMAIN log : Occurs(accepted, log[k].id)
    /\ \A j, k \in DOMAIN log :
          j < k => Position(accepted, log[j].id) < Position(accepted, log[k].id)

\* Two connections were queued together and answered one after the other.
C9_Witness ==
    /\ Len(log) = 2
    /\ log[1].outcome = "handled"
    /\ log[2].outcome = "handled"
    /\ log[1].proc = log[2].proc
    /\ accepted = << log[1].id, log[2].id >>

(***************************************************************************)
(* C10.  No timeout.  While an accepted connection has not sent its        *)
(* request, no other connection is accepted and nothing is answered on     *)
(* another connection; a connection leaves service only when its client    *)
(* sends the request, resets or closes (the step that records what became  *)
(* of it), or when the process is stopped by a signal.                     *)
(***************************************************************************)
C10_BlockedUntilClientActs ==
    [][inService # {}
         => /\ accepted' = accepted
            /\ \A k \in DOMAIN log' \ DOMAIN log : log'[k].id \in inService
            /\ \A c \in inService \ inService' :
                  \/ \E k \in DOMAIN log' \ DOMAIN log : log'[k].id = c
                  \/ \E p \in Procs :
                        state[p] = "Listening" /\ state'[p] = "Terminated"]_vars

\* A connection is in service, its request not yet sent, while another
\* waits in the accept queue.
C10_Witness ==
    /\ inService # {}
    /\ backlog # << >>
    /\ \E p \in listeners : state[p] = "Listening"

====
